---------------------------- MODULE Spec2Model ----------------------------
(* HttpCaller (byteplus/core/http_caller.py): one signed, gzip-compressed,  *)
(* protobuf-over-HTTP POST per do_request call.  Text the program composes  *)
(* or inspects is a sequence of one-character strings, bytes are a sequence *)
(* of integers; the four constant header values are plain strings.          *)
EXTENDS Integers, Sequences, FiniteSets, TLC

\* ------------------------------------------------------------------ bounds
\* Number of do_request invocations made on the one HttpCaller.
MaxCalls == 2
\* Number of threads that call do_request on the one HttpCaller.
MaxThreads == 2
\* The clock is not read beyond this many ticks after construction.
MaxClock == 1

\* ------------------------------------------------------- program constants
_SUCCESS_HTTP_CODE == 200
\* random.sample(..., 8): the nonce length.
NonceLen == 8


\* ------------------------------------------------------------- text, bytes
\* The printable ASCII characters 32..95, in code-point order.
Printable ==
    <<
       " ", "!", "\"", "#", "$", "%", "&", "'", "(", ")", "*", "+", ",", "-", ".", "/",
       "0", "1", "2", "3", "4", "5", "6", "7", "8", "9", ":", ";", "<", "=", ">", "?",
       "@", "A", "B", "C", "D", "E", "F", "G", "H", "I", "J", "K", "L", "M", "N", "O",
       "P", "Q", "R", "S", "T", "U", "V", "W", "X", "Y", "Z", "[", "\\", "]", "^", "_"
    >>
\* The printable ASCII characters 97..126, in code-point order.
PrintableHigh ==
    <<
       "a", "b", "c", "d", "e", "f", "g", "h", "i", "j", "k", "l", "m", "n", "o", "p",
       "q", "r", "s", "t", "u", "v", "w", "x", "y", "z", "{", "|", "}", "~"
    >>

ascii_lowercase == <<"a", "b", "c", "d", "e", "f", "g", "h", "i", "j", "k", "l", "m", "n", "o", "p", "q", "r", "s", "t", "u", "v", "w", "x", "y", "z">>
ascii_uppercase == <<"A", "B", "C", "D", "E", "F", "G", "H", "I", "J", "K", "L", "M", "N", "O", "P", "Q", "R", "S", "T", "U", "V", "W", "X", "Y", "Z">>
digits == <<"0", "1", "2", "3", "4", "5", "6", "7", "8", "9">>
ascii_letters == ascii_lowercase \o ascii_uppercase

IndexOf(seq, x) == CHOOSE i \in 1..Len(seq) : seq[i] = x

\* ord(ch) of a printable ASCII character.
CodePoint ==
    [ch \in {Printable[i] : i \in 1..Len(Printable)} |-> 31 + IndexOf(Printable, ch)]
    @@ [ch \in {PrintableHigh[i] : i \in 1..Len(PrintableHigh)} |->
            96 + IndexOf(PrintableHigh, ch)]
Ord(ch) == CodePoint[ch]

\* str.encode('utf-8') restricted to ASCII text: one byte per character.
RECURSIVE Utf8(_)
Utf8(s) == IF s = <<>> THEN <<>> ELSE <<Ord(Head(s))>> \o Utf8(Tail(s))

\* str.lower() on ASCII text.
LowerCase ==
    [ch \in {ascii_uppercase[i] : i \in 1..Len(ascii_uppercase)} |->
        ascii_lowercase[IndexOf(ascii_uppercase, ch)]]
LowerChar(ch) == IF ch \in DOMAIN LowerCase THEN LowerCase[ch] ELSE ch
RECURSIVE Lower(_)
Lower(s) == IF s = <<>> THEN <<>> ELSE <<LowerChar(Head(s))>> \o Lower(Tail(s))

\* needle in hay (Python's substring operator on str).
Contains(hay, needle) ==
    \E k \in 0..(Len(hay) - Len(needle)) :
        \A i \in 1..Len(needle) : hay[k + i] = needle[i]

\* str(n) for a non-negative integer: its decimal digits.
RECURSIVE Str(_)
Str(n) == IF n < 10 THEN <<digits[n + 1]>>
          ELSE Str(n \div 10) \o <<digits[(n % 10) + 1]>>

HexDigits == <<"0", "1", "2", "3", "4", "5", "6", "7", "8", "9", "a", "b", "c", "d", "e", "f">>
\* bytes.hex(): two lowercase hexadecimal digits per byte.
RECURSIVE Hex(_)
Hex(b) == IF b = <<>> THEN <<>>
          ELSE <<HexDigits[(Head(b) \div 16) + 1], HexDigits[(Head(b) % 16) + 1]>>
               \o Hex(Tail(b))


\* Optional[T]: None, or a value.
None == <<>>
Some(v) == <<v>>

\* ------------------------------------------------ collaborators' functions
\* Message.SerializeToString: a message is a sequence of values of one
\* repeated varint field (field 1), each encoded as the tag byte 8 and the value.
RECURSIVE SerializeToString(_)
SerializeToString(m) ==
    IF m = <<>> THEN <<>> ELSE <<8, Head(m)>> \o SerializeToString(Tail(m))

\* Message.MergeFromString: fields are merged into the message one by one; a
\* bad tag or a truncated field raises DecodeError and keeps what was merged.
RECURSIVE MergeFromString(_, _)
MergeFromString(msg, b) ==
    IF b = <<>> THEN [ok |-> TRUE, msg |-> msg]
    ELSE IF Len(b) < 2 \/ Head(b) # 8 THEN [ok |-> FALSE, msg |-> msg]
    ELSE MergeFromString(Append(msg, b[2]), SubSeq(b, 3, Len(b)))

\* Message.ParseFromString called on a container: Clear(), then MergeFromString.
ParseFromString(container, b) == MergeFromString(<<>>, b)

\* gzip.compress: the two magic bytes, the payload, the size trailer.
Gzip(b) == <<31, 139>> \o b \o <<Len(b) % 256>>

\* hashlib.sha256: the hasher accumulates what update() is fed; hexdigest is
\* modelled as a collision-free digest, the hexadecimal form of what was fed.
sha256_new == <<>>
sha256_update(h, b) == h \o b
sha256_hexdigest(h) == Hex(h)

\* random.sample(population, k), the pool algorithm CPython uses for a
\* population of 62 and k = 8; js are the raw draws, randbelow(n) = draw % n.
RECURSIVE Sample(_, _, _)
Sample(pool, k, js) ==
    IF k = 0 THEN <<>>
    ELSE LET n == Len(pool)
             j == Head(js) % n
             moved == [pool EXCEPT ![j + 1] = pool[n]]
         IN  <<pool[j + 1]>> \o Sample(SubSeq(moved, 1, n - 1), k - 1, Tail(js))

\* uuid.uuid1: the timestamp never repeats (uuid._last_timestamp).
Uuid1Timestamp(t, last) ==
    IF last # None /\ t <= last[1] THEN last[1] + 1 ELSE t
\* str(uuid): the timestamp field, the version, the node.
UuidStr(ts) == Str(ts) \o <<"-", "1", "-", "n">>

\* str.format: every "{}" of the template is replaced by the next argument;
\* the rest of the template, "%d" and "%s" included, is copied as it is.
RECURSIVE StrFormat(_, _)
StrFormat(t, args) ==
    IF t = <<>> THEN <<>>
    ELSE IF Len(t) >= 2 /\ t[1] = "{" /\ t[2] = "}" /\ args # <<>>
         THEN Head(args) \o StrFormat(SubSeq(t, 3, Len(t)), Tail(args))
         ELSE <<Head(t)>> \o StrFormat(Tail(t), args)

\* ------------------------------------------------------------------ inputs
Threads == 1..MaxThreads

\* Context(tenant_id, token) the caller is constructed with.
Contexts ==
    { [tenant_id |-> <<"t", "1">>, token |-> <<"k", "e", "y">>],
      [tenant_id |-> <<"t", "2">>, token |-> <<"T", "o", "k">>] }

\* "http://h/Timeout"
Url == <<"h", "t", "t", "p", ":", "/", "/", "h", "/", "T", "i", "m", "e", "o", "u", "t">>

\* The arguments of one do_request call: the request message, the options
\* (request_id, timeout in seconds) and the content of the response container.
CallArgs ==
    { [request |-> <<1>>,    request_id |-> None,           timeout |-> None,
       response |-> <<>>],
      [request |-> <<1, 2>>, request_id |-> Some(<<>>),     timeout |-> Some(3),
       response |-> <<2>>],
      [request |-> <<2>>,    request_id |-> Some(<<"r", "i", "d">>),
       timeout |-> Some(3),  response |-> <<2>>],
      [request |-> <<>>,     request_id |-> None,           timeout |-> None,
       response |-> <<1>>] }

\* Raw draws of the random source for one nonce.
RandStreams ==
    { <<0, 0, 0, 0, 0, 0, 0, 0>>,
      <<61, 3, 3, 17, 0, 58, 40, 40>>,
      <<7, 60, 59, 58, 57, 56, 55, 54>> }

\* What requests.post can raise: the cause of the failure and str(e), which
\* for a connection error can name the url.  A read timeout needs a timeout
\* to have been passed.
TransportFailures ==
    { [kind |-> "raise", cause |-> "timeout", needs_timeout |-> TRUE,
       \* Read timed out. (read timeout=3)
       msg |-> <<"R", "e", "a", "d", " ", "t", "i", "m", "e", "d", " ", "o",
                 "u", "t", ".", " ", "(", "r", "e", "a", "d", " ", "t", "i",
                 "m", "e", "o", "u", "t", "=", "3", ")">>],
      [kind |-> "raise", cause |-> "timeout", needs_timeout |-> FALSE,
       \* [Errno 110] Connection timed out
       msg |-> <<"[", "E", "r", "r", "n", "o", " ", "1", "1", "0", "]", " ",
                 "C", "o", "n", "n", "e", "c", "t", "i", "o", "n", " ", "t",
                 "i", "m", "e", "d", " ", "o", "u", "t">>],
      [kind |-> "raise", cause |-> "refused", needs_timeout |-> FALSE,
       \* [Errno 111] Connection refused
       msg |-> <<"[", "E", "r", "r", "n", "o", " ", "1", "1", "1", "]", " ",
                 "C", "o", "n", "n", "e", "c", "t", "i", "o", "n", " ", "r",
                 "e", "f", "u", "s", "e", "d">>],
      [kind |-> "raise", cause |-> "refused", needs_timeout |-> FALSE,
       \* Connection refused, url: /Timeout
       msg |-> <<"C", "o", "n", "n", "e", "c", "t", "i", "o", "n", " ", "r",
                 "e", "f", "u", "s", "e", "d", ",", " ", "u", "r", "l", ":",
                 " ", "/", "T", "i", "m", "e", "o", "u", "t">>] }

\* The reason phrases "OK", "Internal Server Error", "Not Found".
ReasonOK == <<"O", "K">>
ReasonInternalServerError ==
    <<"I", "n", "t", "e", "r", "n", "a", "l", " ", "S", "e", "r", "v", "e", "r", " ",
      "E", "r", "r", "o", "r">>
ReasonNotFound == <<"N", "o", "t", " ", "F", "o", "u", "n", "d">>

Response(status_code, reason, content) ==
    [kind |-> "response", status_code |-> status_code, reason |-> reason,
     content |-> content]

\* What requests.post can return: status_code, reason, content.
Responses ==
    { Response(200, ReasonOK, Some(<<8, 1, 8, 2>>)),
      Response(200, ReasonOK, Some(<<>>)),
      Response(200, ReasonOK, None),
      Response(200, ReasonOK, Some(<<8, 1, 8>>)),
      Response(200, ReasonOK, Some(<<15, 1>>)),
      Response(500, ReasonInternalServerError, Some(<<8, 1>>)),
      Response(404, ReasonNotFound, Some(<<>>)) }

\* The inputs of one call: its arguments and what the random source yields.
Inputs == CallArgs \X RandStreams

\* The smaller inputs of the calls that run concurrently.
ConcurrentInputs ==
    { in \in Inputs :
        \/ in[1].request = <<1>> /\ in[2][1] = 0
        \/ in[1].request = <<2>> /\ in[2][1] = 61 }
ConcurrentFailures ==
    { f \in TransportFailures : f.needs_timeout }
ConcurrentResponses ==
    { r \in Responses : r.content = Some(<<8, 1, 8, 2>>) \/ r.status_code = 500 }

\* ------------------------------------------------------ header construction
\* headers[key] = value on a dict.
SetItem(d, k, v) == (k :> v) @@ d

\* _cal_signature with the order of the timestamp and the nonce exchanged.
CalSignatureNonceFirst(ctx, req_bytes, ts, nonce) ==
    sha256_hexdigest(
        sha256_update(sha256_update(sha256_update(sha256_update(sha256_update(
            sha256_new, Utf8(ctx.token)), req_bytes), Utf8(ctx.tenant_id)),
            Utf8(nonce)), Utf8(ts)))

\* HttpCaller._cal_signature: token, body, tenant id, ts, nonce, in this order.
CalSignature(ctx, req_bytes, ts, nonce) ==
    sha256_hexdigest(
        sha256_update(sha256_update(sha256_update(sha256_update(sha256_update(
            sha256_new, Utf8(ctx.token)), req_bytes), Utf8(ctx.tenant_id)),
            Utf8(ts)), Utf8(nonce)))

\* A nonce of independently chosen characters (random.choice per character).
NonceByChoice(js) ==
    LET alphabet == ascii_letters \o digits
    IN  [i \in 1..NonceLen |-> alphabet[(js[i] % Len(alphabet)) + 1]]

\* ''.join(random.sample(string.ascii_letters + string.digits, 8))
Nonce(js) == Sample(ascii_letters \o digits, NonceLen, js)

\* HttpCaller._with_auth_headers; t is what time.time() returns, js the draws.
WithAuthHeaders(headers, req_bytes, ctx, t, js) ==
    LET ts        == Str(t)
        nonce     == Nonce(js)
        signature == CalSignature(ctx, req_bytes, ts, nonce)
    IN  SetItem(SetItem(SetItem(SetItem(headers,
            "Tenant-Id", ctx.tenant_id),
            "Tenant-Ts", ts),
            "Tenant-Nonce", nonce),
            "Tenant-Signature", signature)

\* The request id tested against None only.
HasRequestIdNotNone(request_id) == request_id # None

\* options.request_id is not None and len(options.request_id) > 0
HasRequestId(request_id) == request_id # None /\ Len(request_id[1]) > 0

\* HttpCaller._build_headers; uuid is str(uuid.uuid1()) if it were called.
BuildHeaders(options, req_bytes, ctx, uuid, t, js) ==
    LET fixed == SetItem(SetItem(SetItem(SetItem(<<>>,
                     "Content-Encoding", "gzip"),
                     "Accept-Encoding", "gzip"),
                     "Content-Type", "application/x-protobuf"),
                     "Accept", "application/x-protobuf")
        withId == IF HasRequestId(options.request_id)
                  THEN SetItem(fixed, "Request-Id", options.request_id[1])
                  ELSE SetItem(fixed, "Request-Id", uuid)
    IN  WithAuthHeaders(withId, req_bytes, ctx, t, js)

\* Option.conv_to_options: the options object of one call.
ConvToOptions(a) == [request_id |-> a.request_id, timeout |-> a.timeout]

\* ---------------------------------------------------------- the HTTP result
\* HttpCaller._log_rsp: the error line, with the body when there is one.
LogRsp(r) ==
    IF r.content # None /\ Len(r.content[1]) > 0
    THEN [level |-> "error", what |-> "status", body |-> r.content]
    ELSE [level |-> "error", what |-> "status", body |-> None]

Exc(kind, msg) == Some([kind |-> kind, msg |-> msg])

\* A caller that takes every response for a success.
IsSuccessUnchecked(status_code) == TRUE

\* rsp.status_code != _SUCCESS_HTTP_CODE decides between raise and return.
IsSuccess(status_code) == status_code = _SUCCESS_HTTP_CODE

\* The string literals "timeout", "code:%d msg:%s", "parse response fail".
TimeoutText == <<"t", "i", "m", "e", "o", "u", "t">>
StatusTemplate ==
    <<"c", "o", "d", "e", ":", "%", "d", " ", "m", "s", "g", ":", "%", "s">>
ParseFailText ==
    <<"p", "a", "r", "s", "e", " ", "r", "e", "s", "p", "o", "n", "s", "e", " ",
      "f", "a", "i", "l">>

\* HttpCaller._do_http_request after requests.post ended with outcome o:
\* the exception it raises (or None), the bytes it returns, what it logs.
DoHttpRequest(o) ==
    IF o.kind = "raise"
    THEN IF Contains(Lower(o.msg), TimeoutText)
         THEN [exc |-> Exc("NetException", o.msg), rsp_bytes |-> None,
               log |-> <<[level |-> "error", what |-> "timeout", body |-> None]>>]
         ELSE [exc |-> Exc("BizException", o.msg), rsp_bytes |-> None,
               log |-> <<[level |-> "error", what |-> "io", body |-> None]>>]
    ELSE IF ~IsSuccess(o.status_code)
         THEN [exc |-> Exc("NetException",
                           StrFormat(StatusTemplate,
                                     <<Str(o.status_code), o.reason>>)),
               rsp_bytes |-> None, log |-> <<LogRsp(o)>>]
         ELSE [exc |-> None, rsp_bytes |-> o.content, log |-> <<>>]

\* HttpCaller.do_request from the return of _do_http_request on: the
\* exception raised (or None), the response container, the log.
DoRequestResult(container, o) ==
    LET r == DoHttpRequest(o)
    IN  IF r.exc # None
        THEN [exc |-> r.exc, response |-> container, log |-> r.log]
        ELSE IF r.rsp_bytes # None
        THEN LET p == ParseFromString(container, r.rsp_bytes[1])
             IN  IF p.ok
                 THEN [exc |-> None, response |-> p.msg, log |-> r.log]
                 ELSE [exc |-> Exc("BizException", ParseFailText),
                       response |-> p.msg,
                       log |-> r.log \o <<[level |-> "error", what |-> "parse",
                                           body |-> None]>>]
        ELSE [exc |-> None, response |-> container, log |-> r.log]

\* A caller that sends the request again after a network error.
PcAfterRaiseRetry(kind) == IF kind = "NetException" THEN "built" ELSE "raised"

\* raise: the exception leaves do_request, the call is over.
PcAfterRaise(kind) == "raised"

\* One header dict for all calls (kept on the caller object).
SharedHeaders(hs, c, h) == [x \in DOMAIN hs |-> h]

\* headers = {...}: a dict local to the call that builds it.
LocalHeaders(hs, c, h) == [hs EXCEPT ![c] = h]

\* ------------------------------------------------------------------- state
VARIABLES
    context,    \* HttpCaller._context
    now,        \* the clock (time.time(), whole seconds since construction)
    uuid_last,  \* uuid._last_timestamp
    started,    \* number of do_request calls started so far
    issued,     \* per call started: the Request-Id uuid1 made for it, or None
    pc,         \* per thread: "idle", "built", "sent", "returned", "raised"
    callno,     \* per thread: the number of its current call
    args,       \* per thread: the arguments do_request was called with
    draws,      \* per thread: what its call drew from the random source
    options,    \* per thread: the _Options of line 32
    req_bytes,  \* per thread: the compressed body of line 31
    headers,    \* per thread: the dict _build_headers returns
    built,      \* per thread: the header dict its call built (history)
    wire,       \* per thread: what requests.post was handed, or None
    posts,      \* per thread: number of requests.post calls of its call
    rsp,        \* per thread: how requests.post ended, or None
    response,   \* per thread: the caller's response container
    err,        \* per thread: the exception do_request raised, or None
    log         \* per thread: error lines its call logged

vars == <<context, now, uuid_last, started, issued, pc, callno, args, draws,
          options, req_bytes, headers, built, wire, posts, rsp, response, err,
          log>>

Init ==
    /\ context \in Contexts
    /\ now = 0
    /\ uuid_last = None
    /\ started = 0
    /\ issued = <<>>
    /\ pc = [c \in Threads |-> "idle"]
    /\ callno = [c \in Threads |-> 0]
    /\ args = [c \in Threads |-> None]
    /\ draws = [c \in Threads |-> None]
    /\ options = [c \in Threads |-> None]
    /\ req_bytes = [c \in Threads |-> None]
    /\ headers = [c \in Threads |-> <<>>]
    /\ built = [c \in Threads |-> <<>>]
    /\ wire = [c \in Threads |-> None]
    /\ posts = [c \in Threads |-> 0]
    /\ rsp = [c \in Threads |-> None]
    /\ response = [c \in Threads |-> <<>>]
    /\ err = [c \in Threads |-> None]
    /\ log = [c \in Threads |-> <<>>]

\* do_request, lines 31-33, called by thread c with inputs from I: compress
\* the serialized request, resolve the options, build the headers.  The
\* thread's previous call is over.  uuid1 reads the clock at t1 and
\* _with_auth_headers at t2; everything written is local to the call, except
\* uuid's last timestamp.
DoRequestBuild(c, I) ==
    /\ pc[c] \in {"idle", "returned", "raised"}
    /\ started < MaxCalls
    /\ \E in \in I, t1 \in now..MaxClock :
       \E t2 \in t1..MaxClock :
        LET a     == in[1]
            js    == in[2]
            opts  == ConvToOptions(a)
            fresh == ~HasRequestId(opts.request_id)
            uts   == Uuid1Timestamp(t1, uuid_last)
        IN  /\ IF fresh THEN TRUE ELSE t1 = now
            /\ \E body \in {Gzip(SerializeToString(a.request))} :
               \E h \in {BuildHeaders(opts, body, context, UuidStr(uts), t2, js)} :
                /\ req_bytes' = [req_bytes EXCEPT ![c] = Some(body)]
                /\ headers' = LocalHeaders(headers, c, h)
                /\ built' = [built EXCEPT ![c] = h]
            /\ started' = started + 1
            /\ callno' = [callno EXCEPT ![c] = started + 1]
            /\ issued' = Append(issued, IF fresh THEN Some(UuidStr(uts)) ELSE None)
            /\ args' = [args EXCEPT ![c] = Some(a)]
            /\ draws' = [draws EXCEPT ![c] = Some(js)]
            /\ response' = [response EXCEPT ![c] = a.response]
            /\ options' = [options EXCEPT ![c] = Some(opts)]
            /\ uuid_last' = IF fresh THEN Some(uts) ELSE uuid_last
            /\ now' = t2
            /\ pc' = [pc EXCEPT ![c] = "built"]
    /\ wire' = [wire EXCEPT ![c] = None]
    /\ posts' = [posts EXCEPT ![c] = 0]
    /\ rsp' = [rsp EXCEPT ![c] = None]
    /\ err' = [err EXCEPT ![c] = None]
    /\ log' = [log EXCEPT ![c] = <<>>]
    /\ UNCHANGED context

\* _do_http_request, lines 89-93: requests.post is handed the request.
HttpPost(c) ==
    /\ pc[c] = "built"
    /\ wire' = [wire EXCEPT ![c] =
                   Some([url |-> Url, headers |-> headers[c],
                         data |-> req_bytes[c][1],
                         timeout |-> options[c][1].timeout])]
    /\ posts' = [posts EXCEPT ![c] = @ + 1]
    /\ pc' = [pc EXCEPT ![c] = "sent"]
    /\ UNCHANGED <<context, now, uuid_last, started, issued, callno, args,
                   draws, options, req_bytes, headers, built, rsp, response,
                   err, log>>

\* requests.post ends in one of the ways of F (raises) or S (returns);
\* _do_http_request and do_request run to their end (lines 94-106, 35-40).
HttpOutcome(c, F, S) ==
    /\ pc[c] = "sent"
    /\ \E o \in { f \in F : f.needs_timeout => wire[c][1].timeout # None } \cup S :
        \E res \in {DoRequestResult(response[c], o)} :
            /\ rsp' = [rsp EXCEPT ![c] = Some(o)]
            /\ response' = [response EXCEPT ![c] = res.response]
            /\ err' = [err EXCEPT ![c] = res.exc]
            /\ log' = [log EXCEPT ![c] = @ \o res.log]
            /\ pc' = [pc EXCEPT ![c] =
                         IF res.exc = None THEN "returned"
                         ELSE PcAfterRaise(res.exc[1].kind)]
    /\ UNCHANGED <<context, now, uuid_last, started, issued, callno, args,
                   draws, options, req_bytes, headers, built, wire, posts>>

\* One thread makes its calls one after the other.
Next ==
    \/ DoRequestBuild(1, Inputs)
    \/ HttpPost(1)
    \/ HttpOutcome(1, TransportFailures, Responses)

Spec == Init /\ [][Next]_vars

\* The threads call do_request on the shared caller at any time.
NextConcurrent ==
    \E c \in Threads :
        \/ DoRequestBuild(c, ConcurrentInputs)
        \/ HttpPost(c)
        \/ HttpOutcome(c, ConcurrentFailures, ConcurrentResponses)

SpecConcurrent == Init /\ [][NextConcurrent]_vars

\* ------------------------------------------------------------- properties
Finished(c) == pc[c] \in {"returned", "raised"}

\* Whether the transport of thread c's call returned a response (not raised).
GotResponse(c) == Finished(c) /\ rsp[c][1].kind = "response"

\* Whether the transport of thread c's call raised.
TransportRaised(c) == Finished(c) /\ rsp[c][1].kind = "raise"

\* C1: for every call whose exchange ends with a status other than 200, the
\* Network Error raised carries the status code and the reason of the
\* response: its message contains the decimal status code and the reason.
C1_StatusErrorCarriesCodeAndReason ==
    \A c \in Threads :
        (GotResponse(c) /\ rsp[c][1].status_code # 200) =>
            /\ pc[c] = "raised"
            /\ err[c][1].kind = "NetException"
            /\ Contains(err[c][1].msg, Str(rsp[c][1].status_code))
            /\ Contains(err[c][1].msg, rsp[c][1].reason)

\* C2: whenever the transport fails because of a timeout, whatever the text
\* of the failure, do_request raises a Network Error.
C2_TimeoutRaisesNetError ==
    \A c \in Threads :
        (TransportRaised(c) /\ rsp[c][1].cause = "timeout") =>
            pc[c] = "raised" /\ err[c][1].kind = "NetException"

\* C3: every transport failure that is not a timeout, whatever its text, and
\* every failure to deserialize the body of a 200 response raises a
\* Business/Protocol Error; for the transport failure it carries the message.
C3_OtherFailuresRaiseBizError ==
    \A c \in Threads :
        /\ (TransportRaised(c) /\ rsp[c][1].cause # "timeout") =>
              /\ pc[c] = "raised"
              /\ err[c][1].kind = "BizException"
              /\ err[c][1].msg = rsp[c][1].msg
        /\ (/\ GotResponse(c)
            /\ rsp[c][1].status_code = 200
            /\ rsp[c][1].content # None
            /\ ~MergeFromString(<<>>, rsp[c][1].content[1]).ok) =>
              pc[c] = "raised" /\ err[c][1].kind = "BizException"

\* C4: whenever do_request fails, the response container holds exactly the
\* content it held before the call.
C4_FailureLeavesContainer ==
    \A c \in Threads :
        pc[c] = "raised" => response[c] = args[c][1].response

\* C5 as claimed: whenever do_request returns, the exchange ended with status
\* 200 and the container holds the deserialized body of that response; no
\* outcome (a 200 response without a body included) returns otherwise.
C5_ReturnMeansPopulated ==
    \A c \in Threads :
        pc[c] = "returned" =>
            /\ rsp[c][1].kind = "response"
            /\ rsp[c][1].status_code = 200
            /\ rsp[c][1].content # None
            /\ MergeFromString(<<>>, rsp[c][1].content[1]).ok
            /\ response[c] = MergeFromString(<<>>, rsp[c][1].content[1]).msg

\* C5 as amended: whenever do_request returns, the exchange ended with status
\* 200, and either the response has a body and the container holds exactly its
\* deserialization, or it has none (None) and the container is as it was.
C5_ReturnMeansPopulatedOrNoBody ==
    \A c \in Threads :
        pc[c] = "returned" =>
            /\ rsp[c][1].kind = "response"
            /\ rsp[c][1].status_code = 200
            /\ IF rsp[c][1].content = None
               THEN response[c] = args[c][1].response
               ELSE /\ MergeFromString(<<>>, rsp[c][1].content[1]).ok
                    /\ response[c] = MergeFromString(<<>>, rsp[c][1].content[1]).msg

\* A call returned with the container replaced by the decoded body.
C5_Witness ==
    \E c \in Threads :
        /\ pc[c] = "returned"
        /\ rsp[c][1].content = Some(<<8, 1, 8, 2>>)
        /\ response[c] = <<1, 2>>
        /\ args[c][1].response = <<2>>

\* C6: the Tenant-Signature of every request handed to the transport is the
\* digest of the concatenation of the context token, the body sent (the
\* gzip-compressed serialization), and the values of the Tenant-Id, Tenant-Ts
\* and Tenant-Nonce headers of that request, in this order; the header set
\* carries exactly one signature.
C6_SignatureVerifiable ==
    \A c \in Threads :
        wire[c] # None =>
            LET w == wire[c][1]
            IN  /\ Cardinality({k \in DOMAIN w.headers : k = "Tenant-Signature"}) = 1
                /\ w.data = Gzip(SerializeToString(args[c][1].request))
                /\ w.headers["Tenant-Id"] = context.tenant_id
                /\ w.headers["Tenant-Signature"] =
                       sha256_hexdigest(Utf8(context.token) \o w.data
                                        \o Utf8(w.headers["Tenant-Id"])
                                        \o Utf8(w.headers["Tenant-Ts"])
                                        \o Utf8(w.headers["Tenant-Nonce"]))

\* A request with a non-empty message is on the wire, stamped after the clock
\* moved.
C6_Witness ==
    \E c \in Threads :
        /\ pc[c] = "sent"
        /\ args[c][1].request = <<1, 2>>
        /\ wire[c][1].headers["Tenant-Ts"] = Str(1)

\* C7: the Request-Id header is present and non-empty on every request; it is
\* the explicit request id when that is non-empty, and otherwise a generated
\* identifier that differs from the one generated for any earlier call.
C7_RequestId ==
    \A c \in Threads :
        pc[c] # "idle" =>
            LET h   == headers[c]
                rid == options[c][1].request_id
            IN  /\ "Request-Id" \in DOMAIN h
                /\ Len(h["Request-Id"]) > 0
                /\ wire[c] # None => wire[c][1].headers["Request-Id"] = h["Request-Id"]
                /\ IF rid # None /\ rid[1] # <<>>
                   THEN h["Request-Id"] = rid[1]
                   ELSE /\ issued[callno[c]] = Some(h["Request-Id"])
                        /\ \A m \in 1..(callno[c] - 1) :
                               issued[m] # Some(h["Request-Id"])

\* The second of two calls without a request id has its generated identifier,
\* made while the clock stood still.
C7_Witness ==
    \E c \in Threads :
        /\ callno[c] = 2
        /\ pc[c] = "sent"
        /\ options[c][1].request_id = None
        /\ issued[1] # None
        /\ now = 0

\* C8: every call issues at most one POST: once it has been sent the request
\* is never sent again, whether the call returns or raises, and a call that
\* returned or raised has issued exactly one.
C8_AtMostOnePost ==
    \A c \in Threads :
        /\ posts[c] <= 1
        /\ pc[c] \in {"sent", "returned", "raised"} => posts[c] = 1
        /\ Finished(c) => ~ENABLED HttpPost(c)

\* A call raised a Network Error after its one POST.
C8_Witness ==
    \E c \in Threads :
        /\ pc[c] = "raised"
        /\ err[c][1].kind = "NetException"
        /\ posts[c] = 1

\* What C9 says of every state: the request a call hands to the transport is
\* the one it built from its own arguments, and its response container is
\* the result of its own exchange.
C9_OwnRequest ==
    \A c \in Threads :
        /\ context \in Contexts
        /\ wire[c] # None =>
              /\ wire[c][1].headers = built[c]
              /\ wire[c][1].data = Gzip(SerializeToString(args[c][1].request))
              /\ wire[c][1].timeout = args[c][1].timeout
              /\ wire[c][1].headers["Tenant-Nonce"] = Nonce(draws[c][1])
              /\ wire[c][1].headers["Tenant-Id"] = context.tenant_id
              /\ wire[c][1].headers["Tenant-Signature"] =
                     CalSignature(context, wire[c][1].data,
                                  wire[c][1].headers["Tenant-Ts"],
                                  wire[c][1].headers["Tenant-Nonce"])
              /\ HasRequestId(args[c][1].request_id) =>
                     wire[c][1].headers["Request-Id"] = args[c][1].request_id[1]
              /\ ~HasRequestId(args[c][1].request_id) =>
                     Some(wire[c][1].headers["Request-Id"]) = issued[callno[c]]
        /\ pc[c] \in {"built", "sent"} => response[c] = args[c][1].response
        /\ Finished(c) =>
              response[c] = DoRequestResult(args[c][1].response, rsp[c][1]).response

\* C9: under any interleaving of concurrent calls on one caller, no call
\* writes the Context, and every call transmits the body, Tenant-Ts,
\* Tenant-Nonce, Request-Id and Tenant-Signature it built itself and fills
\* only its own response container.
C9_NoSharedState == [][context' = context]_vars /\ []C9_OwnRequest

\* Two calls are in flight at once with different requests on the wire.
C9_Witness ==
    \E c, d \in Threads :
        /\ c # d
        /\ pc[c] = "sent"
        /\ pc[d] = "sent"
        /\ wire[c][1].data # wire[d][1].data
        /\ wire[c][1].headers["Tenant-Nonce"] # wire[d][1].headers["Tenant-Nonce"]

\* C10: the nonce of every call is 8 characters of [A-Za-z0-9], pairwise
\* distinct, sampled without replacement with the draws of that call.
C10_Nonce ==
    \A c \in Threads :
        pc[c] # "idle" =>
            LET n        == headers[c]["Tenant-Nonce"]
                alphabet == ascii_letters \o digits
            IN  /\ Len(n) = 8
                /\ Len(alphabet) = 62
                /\ \A i \in 1..8 : \E k \in 1..62 : n[i] = alphabet[k]
                /\ \A i, j \in 1..8 : i # j => n[i] # n[j]
                /\ n = Sample(alphabet, 8, draws[c][1])

\* The second call of a thread drew again: its nonce is built from draws that
\* hit the same pool index repeatedly.
C10_Witness ==
    \E c \in Threads :
        /\ callno[c] = 2
        /\ pc[c] = "built"
        /\ draws[c] = Some(<<61, 3, 3, 17, 0, 58, 40, 40>>)
        /\ headers[c]["Tenant-Nonce"][2] # headers[c]["Tenant-Nonce"][3]

=============================================================================
